---- MODULE Spec2Model ----
(***************************************************************************)
(* Load-history pipeline of load-forcasting-sweden: the time-range         *)
(* calculator, the schema converters, the history reconciler               *)
(* (update_history_parquet_multi) and the update job (src/src/main.py).    *)
(*                                                                         *)
(* A pandas Timestamp is modelled as it is stored: an absolute instant i8  *)
(* (minutes since 2023-01-01T00:00Z) and a time zone tag tz.  The wall     *)
(* clock of a Timestamp is i8 + UtcOffset(tz, i8).                         *)
(***************************************************************************)
EXTENDS Integers, Sequences, FiniteSets, TLC

VARIABLES
    file,            \* the persisted parquet file at PARQUET_FILE
    pc,              \* position of the running process
    new_df,          \* update_history_parquet_multi: argument new_df
    ret,             \* update_history_parquet_multi: returned combo
    prior,           \* the file as it was when the current call/run started
    zi,              \* main: index of the zone the fetch loop is at
    storage_chunks,  \* main: the concatenation of storage_chunks so far
    combo,           \* update_history_parquet_multi: combo, while it is written
    now,             \* get_time_range: pd.Timestamp.now(tz=TZ), an instant
    days_back,       \* get_time_range: argument days_back
    window,          \* get_time_range: outcome [raised, start, end]
    conv_in,         \* schema round trip: the storage table given
    conv_tz,         \* schema round trip: the display time zone
    conv_mid,        \* schema round trip: to_display_df's result
    conv_out,        \* schema round trip: to_storage_df's result
    peak_df,         \* compute_yearly_peak_loads: argument df
    yearly_peaks,    \* compute_yearly_peak_loads: outcome [raised, records]
    df_or_s,         \* _to_tidy: argument df_or_s
    tidy,            \* _to_tidy: outcome [raised, rows]
    range_start,     \* month_ranges: argument start
    range_end,       \* month_ranges: argument end
    months,          \* month_ranges: the windows yielded
    frames,          \* backfill main: the concatenation of frames so far
    full             \* backfill main: the table written to --out

vars == <<file, pc, new_df, ret, prior, zi, storage_chunks, combo,
          now, days_back, window, conv_in, conv_tz, conv_mid, conv_out,
          peak_df, yearly_peaks, df_or_s, tidy, range_start, range_end, months,
          frames, full>>

\* the variables of the analytics and of the backfill script
aux == <<peak_df, yearly_peaks, df_or_s, tidy, range_start, range_end, months,
         frames, full>>

(***************************************************************************)
(* Bounds of the model.                                                    *)
(***************************************************************************)
MaxBatch == 2      \* rows of an incoming batch handed to the reconciler
MaxFetch == 1      \* rows of one upstream response
MaxDaysBack == 3   \* largest days_back tried
MaxRows == 2       \* rows of a table given to the schema round trip

(***************************************************************************)
(* Time: minutes since 2023-01-01T00:00Z.                                  *)
(***************************************************************************)
Hour == 60
Day == 24 * Hour

\* Europe/Stockholm: CEST from the last Sunday of March 01:00Z to the last
\* Sunday of October 01:00Z.
DstStart2023 == (84 * 24 + 1) * Hour      \* 2023-03-26T01:00Z
DstEnd2023 == (301 * 24 + 1) * Hour       \* 2023-10-29T01:00Z
DstStart2024 == (455 * 24 + 1) * Hour     \* 2024-03-31T01:00Z
DstEnd2024 == (665 * 24 + 1) * Hour       \* 2024-10-27T01:00Z

TZ == "Europe/Stockholm"
UTC == "UTC"
TimeZones == {UTC, TZ, "Asia/Kolkata"}

ZoneOffsets(tz) ==
    IF tz = TZ THEN {60, 120}
    ELSE IF tz = "Asia/Kolkata" THEN {330}
    ELSE {0}

UtcOffset(tz, i8) ==
    IF tz = TZ
    THEN IF \/ (DstStart2023 <= i8 /\ i8 < DstEnd2023)
            \/ (DstStart2024 <= i8 /\ i8 < DstEnd2024)
         THEN 120 ELSE 60
    ELSE IF tz = "Asia/Kolkata" THEN 330
    ELSE 0

Ts(i, tz) == [i8 |-> i, tz |-> tz]
NaT == [i8 |-> 0, tz |-> "NaT"]
IsNaT(t) == t.tz = "NaT"

Wall(t) == t.i8 + UtcOffset(t.tz, t.i8)

\* Series.dt.tz_convert / DatetimeIndex.tz_convert: same instant, new zone.
TzConvert(t, tz) == IF IsNaT(t) THEN NaT ELSE Ts(t.i8, tz)

\* tz_localize of a wall-clock reading w: the instants of tz that read w.
Localizations(w, tz) ==
    {u \in {w - off : off \in ZoneOffsets(tz)} : u + UtcOffset(tz, u) = w}

(***************************************************************************)
(* Storage schema: rows ["date", "zone", "load_mw"].                       *)
(***************************************************************************)
\* config.TARGET_ZONES; the model tracks the first two of the five zones.
TARGET_ZONES == <<"SE_total", "SE1">>
Zones == {TARGET_ZONES[i] : i \in 1..Len(TARGET_ZONES)}
NoZone == "<NA>"

\* Python orders str by code point: "SE1" < ... < "SE4" < "SE_total".
ZoneOrder == <<"SE1", "SE2", "SE3", "SE4", "SE_total">>
ZoneRank(z) == CHOOSE i \in 1..Len(ZoneOrder) : ZoneOrder[i] = z

NaN == 0 - 1
Loads == {1, 2}

Row(d, z, v) == [date |-> d, zone |-> z, load_mw |-> v]
Key(r) == <<r.date, r.zone>>
HasKey(r) == ~IsNaT(r.date) /\ r.zone # NoZone
Keys(df) == {Key(df[i]) : i \in 1..Len(df)}

\* The two readings of 02:00 Europe/Stockholm on 2023-10-29.
FallBackA == DstEnd2023 - Hour     \* 2023-10-29T00:00Z = 02:00 CEST
FallBackB == DstEnd2023            \* 2023-10-29T01:00Z = 02:00 CET
Instants == {FallBackA, FallBackB}

ValidRows == {Row(Ts(i, UTC), z, v) : i \in Instants, z \in Zones, v \in Loads}
BatchRows ==
    ValidRows \cup {Row(Ts(FallBackA, UTC), "SE1", NaN),
                    Row(NaT, "SE1", 1),
                    Row(Ts(FallBackA, UTC), NoZone, 1)}

RECURSIVE SeqsUpTo(_, _)
SeqsUpTo(S, n) ==
    IF n = 0 THEN {<<>>}
    ELSE LET shorter == SeqsUpTo(S, n - 1)
         IN shorter \cup {Append(s, x) : s \in {t \in shorter : Len(t) = n - 1}, x \in S}

Batches == SeqsUpTo(BatchRows, MaxBatch)

(***************************************************************************)
(* DataFrame operations used by the reconciler.                            *)
(***************************************************************************)
\* The rows of df at the positions in keep, in df's order.
RECURSIVE TakeRows(_, _, _)
TakeRows(df, keep, i) ==
    IF i > Len(df) THEN <<>>
    ELSE (IF i \in keep THEN <<df[i]>> ELSE <<>>) \o TakeRows(df, keep, i + 1)

\* dropna(subset=["date","zone"])
DropNaKeys(df) == TakeRows(df, {i \in 1..Len(df) : HasKey(df[i])}, 1)

\* faulty variant: sort_values(["date","zone"])
RowLessDateMajor(a, b) ==
    \/ a.date.i8 < b.date.i8
    \/ a.date.i8 = b.date.i8 /\ ZoneRank(a.zone) < ZoneRank(b.zone)

\* (zone, date) lexicographic order of sort_values(["zone","date"])
RowLess(a, b) ==
    \/ ZoneRank(a.zone) < ZoneRank(b.zone)
    \/ a.zone = b.zone /\ a.date.i8 < b.date.i8

\* Insert r after every row that does not sort after it (stability).
InsertStable(sorted, r) ==
    LET k == Cardinality({i \in 1..Len(sorted) : ~RowLess(r, sorted[i])})
    IN SubSeq(sorted, 1, k) \o <<r>> \o SubSeq(sorted, k + 1, Len(sorted))

\* sort_values on several columns is a lexsort: stable, rows with equal
\* keys keep their concatenation order.
RECURSIVE SortValues(_)
SortValues(df) ==
    IF df = <<>> THEN <<>>
    ELSE InsertStable(SortValues(SubSeq(df, 1, Len(df) - 1)), df[Len(df)])

\* faulty variant: keep="first"
DropDuplicatesKeepFirst(df) ==
    TakeRows(df, {i \in 1..Len(df) :
                    ~\E j \in 1..(i - 1) : Key(df[j]) = Key(df[i])}, 1)

\* faulty variant: keep=False, every row of a repeated key is dropped
DropDuplicatesKeepNone(df) ==
    TakeRows(df, {i \in 1..Len(df) :
                    ~\E j \in 1..Len(df) : j # i /\ Key(df[j]) = Key(df[i])}, 1)

\* drop_duplicates(subset=["date","zone"], keep="last")
DropDuplicates(df) ==
    TakeRows(df, {i \in 1..Len(df) :
                    ~\E j \in (i + 1)..Len(df) : Key(df[j]) = Key(df[i])}, 1)

(***************************************************************************)
(* The persisted file.                                                     *)
(***************************************************************************)
AllCols == {"date", "zone", "load_mw"}
Absent == [exists |-> FALSE, readable |-> FALSE, cols |-> {}, rows |-> <<>>]
\* DataFrame.to_parquet(parquet_path, index=False), completed
Written(df) == [exists |-> TRUE, readable |-> TRUE, cols |-> AllCols, rows |-> df]

\* pd.concat fills the columns a frame lacks with NaN; to_datetime(utc=True)
HistRow(f, r) ==
    Row(TzConvert(r.date, UTC),
        IF "zone" \in f.cols THEN r.zone ELSE NoZone,
        IF "load_mw" \in f.cols THEN r.load_mw ELSE NaN)
HistRows(f) == [i \in 1..Len(f.rows) |-> HistRow(f, f.rows[i])]

\* faulty variant: only the incoming batch is deduplicated, then appended
UpdateHistoryDedupNewOnly(f, df) ==
    IF f.exists /\ (~f.readable \/ "date" \notin f.cols)
    THEN [raised |-> TRUE, combo |-> <<>>]
    ELSE LET fresh == DropDuplicates(DropNaKeys(df))
             cat == IF f.exists THEN HistRows(f) \o fresh ELSE fresh
         IN [raised |-> FALSE, combo |-> SortValues(DropNaKeys(cat))]

\* faulty variant: the stored history is not read, the batch replaces it
UpdateHistoryOverwrite(f, df) ==
    IF f.exists /\ (~f.readable \/ "date" \notin f.cols)
    THEN [raised |-> TRUE, combo |-> <<>>]
    ELSE [raised |-> FALSE,
          combo |-> DropDuplicates(SortValues(DropNaKeys(df)))]

\* update_history_parquet_multi up to the write: the combo to persist, or
\* the exception of read_parquet / hist["date"].
UpdateHistory(f, df) ==
    IF f.exists /\ (~f.readable \/ "date" \notin f.cols)
    THEN [raised |-> TRUE, combo |-> <<>>]
    ELSE LET cat == IF f.exists THEN HistRows(f) \o df ELSE df
         IN [raised |-> FALSE,
             combo |-> DropDuplicates(SortValues(DropNaKeys(cat)))]

(***************************************************************************)
(* Spec: the reconciler called with arbitrary incoming batches, starting   *)
(* from an absent file.  Between calls only the file persists.             *)
(***************************************************************************)
NoWindow == [raised |-> FALSE, start |-> NaT, end |-> NaT]

Idle ==
    /\ new_df = <<>> /\ ret = <<>> /\ prior = Absent
    /\ zi = 0 /\ storage_chunks = <<>> /\ combo = <<>>
UnusedWindow == now = 0 /\ days_back = 0 /\ window = NoWindow
UnusedConv == conv_in = <<>> /\ conv_tz = UTC /\ conv_mid = <<>> /\ conv_out = <<>>
NoPeaks == [raised |-> FALSE, records |-> <<>>]
NoTidy == [raised |-> FALSE, rows |-> <<>>]
UnusedPeaks == peak_df = <<>> /\ yearly_peaks = NoPeaks
UnusedTidy == df_or_s = <<>> /\ tidy = NoTidy
UnusedMonths == range_start = 0 /\ range_end = 0 /\ months = <<>>
UnusedBackfill == frames = <<>> /\ full = <<>>
UnusedAux == UnusedPeaks /\ UnusedTidy /\ UnusedMonths /\ UnusedBackfill

Init ==
    /\ file = Absent
    /\ pc = "idle"
    /\ Idle /\ UnusedWindow /\ UnusedConv /\ UnusedAux

\* a caller hands new_df to update_history_parquet_multi
Call(batch) ==
    /\ pc = "idle"
    /\ pc' = "called"
    /\ new_df' = batch
    /\ prior' = file
    /\ UNCHANGED <<file, ret, zi, storage_chunks, combo,
                   now, days_back, window, conv_in, conv_tz, conv_mid, conv_out>>
    /\ UNCHANGED aux

\* update_history_parquet_multi, read to return
Update ==
    /\ pc = "called"
    /\ LET o == UpdateHistory(file, new_df)
       IN IF o.raised
          THEN /\ pc' = "raised"
               /\ UNCHANGED <<file, ret>>
          ELSE /\ pc' = "returned"
               /\ file' = Written(o.combo)
               /\ ret' = o.combo
    /\ UNCHANGED <<new_df, prior, zi, storage_chunks, combo,
                   now, days_back, window, conv_in, conv_tz, conv_mid, conv_out>>
    /\ UNCHANGED aux

\* the process ends; its frames are gone, the file stays
Exit ==
    /\ pc \in {"returned", "raised"}
    /\ pc' = "idle"
    /\ new_df' = <<>> /\ ret' = <<>> /\ prior' = Absent
    /\ UNCHANGED <<file, zi, storage_chunks, combo,
                   now, days_back, window, conv_in, conv_tz, conv_mid, conv_out>>
    /\ UNCHANGED aux

Next ==
    \/ \E batch \in Batches : Call(batch)
    \/ Update
    \/ Exit

Spec == Init /\ [][Next]_vars

(***************************************************************************)
(* Properties of the reconciler (Spec).                                    *)
(***************************************************************************)
RowSet(df) == {df[i] : i \in 1..Len(df)}
Positions(df, k) == {i \in 1..Len(df) : Key(df[i]) = k}
LastPosition(df, k) == CHOOSE i \in Positions(df, k) : \A j \in Positions(df, k) : j <= i
\* the keys of the rows that have both a timestamp and a zone
PresentKeys(df) == {Key(df[i]) : i \in {j \in 1..Len(df) : HasKey(df[j])}}

\* C1: after reconcile, every key of the incoming batch carries the value of
\* the last incoming row with that key, every key that is only in the stored
\* table keeps its stored row, and the file holds the returned table.
C1_RevisionAbsorption ==
    pc = "returned" =>
        /\ \A k \in PresentKeys(new_df) :
              /\ Positions(ret, k) # {}
              /\ \A i \in Positions(ret, k) :
                    ret[i].load_mw = new_df[LastPosition(new_df, k)].load_mw
        /\ \A r \in RowSet(prior.rows) :
              Key(r) \notin PresentKeys(new_df) => r \in RowSet(ret)
        /\ file.rows = ret

\* a stored value is revised by the batch while another stored row is kept,
\* and the batch itself repeats a key with two values
C1_Witness ==
    /\ pc = "returned"
    /\ \E r \in RowSet(prior.rows) : \E i \in 1..Len(new_df) :
          Key(r) = Key(new_df[i]) /\ r.load_mw # new_df[Len(new_df)].load_mw
          /\ Key(new_df[Len(new_df)]) = Key(r)
    /\ \E r \in RowSet(prior.rows) : Key(r) \notin PresentKeys(new_df)
    /\ \E i, j \in 1..Len(new_df) :
          i < j /\ Key(new_df[i]) = Key(new_df[j]) /\ HasKey(new_df[i])
          /\ new_df[i].load_mw # new_df[j].load_mw

\* every arrangement of every subset of the rows of df
Arrangements(df) ==
    {s \in SeqsUpTo(RowSet(df), Len(df)) :
        \A i, j \in 1..Len(s) : i # j => s[i] # s[j]}

\* C2: reconcile is idempotent: re-feeding nothing, the whole stored table or
\* any subset of its rows leaves the table as it is, and a second run with
\* the same batch leaves the file as the first run wrote it.
C2_Idempotent ==
    /\ (pc = "idle" /\ file.exists) =>
          \A S \in Arrangements(file.rows) :
              /\ ~UpdateHistory(file, S).raised
              /\ UpdateHistory(file, S).combo = file.rows
    /\ pc = "returned" =>
          Written(UpdateHistory(file, new_df).combo) = file

\* a stored table of several rows, and a run whose batch changed the file
C2_Witness ==
    \/ pc = "idle" /\ Len(file.rows) >= 3
    \/ pc = "returned" /\ prior.exists /\ prior # file /\ Len(new_df) = MaxBatch

NoRepeatedKey(df) ==
    \A i, j \in 1..Len(df) : i # j => Key(df[i]) # Key(df[j])

\* C3: the persisted table and the table reconcile returns hold at most one
\* row per (timestamp, zone) key.
C3_UniqueKeys == NoRepeatedKey(file.rows) /\ NoRepeatedKey(ret)

\* the batch repeats a key internally and repeats a key that is stored
C3_Witness ==
    /\ pc = "returned"
    /\ \E i, j \in 1..Len(new_df) :
          i # j /\ HasKey(new_df[i]) /\ Key(new_df[i]) = Key(new_df[j])
          /\ Key(new_df[i]) \in Keys(prior.rows)
    /\ Len(ret) >= 2

\* order of two storage rows: zone by code point, then instant
InOrder(a, b) ==
    \/ ZoneRank(a.zone) < ZoneRank(b.zone)
    \/ a.zone = b.zone /\ a.date.i8 <= b.date.i8
SortedByZoneDate(df) == \A i, j \in 1..Len(df) : i < j => InOrder(df[i], df[j])

\* C4: the persisted table and every result of reconcile are sorted
\* ascending by (zone, timestamp), zone the major key.
C4_Sorted == SortedByZoneDate(file.rows) /\ SortedByZoneDate(ret)

\* a batch that arrives out of order, merged into rows of both zones
C4_Witness ==
    /\ pc = "returned"
    /\ \A i \in 1..Len(new_df) : HasKey(new_df[i])
    /\ ~SortedByZoneDate(new_df)
    /\ Len(ret) >= 3
    /\ \E i, j \in 1..Len(ret) : ret[i].zone # ret[j].zone
    /\ \E i, j \in 1..Len(ret) : i < j /\ ret[i].date.i8 > ret[j].date.i8

\* C5: no key with a timestamp and a zone ever leaves the persisted table,
\* and a run leaves exactly the prior keys and the batch's non-missing keys.
C5_AppendOnlyKeys ==
    [][/\ PresentKeys(file.rows) \subseteq PresentKeys(file'.rows)
       /\ pc' = "returned" =>
             PresentKeys(file'.rows) = PresentKeys(file.rows) \cup PresentKeys(new_df)]_vars

\* a run that keeps stored keys the batch lacks, adds a key and drops a row
\* without a timestamp or zone
C5_Witness ==
    /\ pc = "returned"
    /\ PresentKeys(prior.rows) \ PresentKeys(new_df) # {}
    /\ PresentKeys(new_df) \ PresentKeys(prior.rows) # {}
    /\ \E i \in 1..Len(new_df) : ~HasKey(new_df[i])
    /\ PresentKeys(file.rows) = PresentKeys(prior.rows) \cup PresentKeys(new_df)

(***************************************************************************)
(* get_time_range.                                                         *)
(***************************************************************************)
BACKFILL_DAYS == 3
INITIAL_HISTORY_DAYS == 60

\* Timestamp.floor("h") of a tz-aware Timestamp: the wall clock is floored
\* and localized again with ambiguous="raise", nonexistent="raise".
FloorHour(t) ==
    LET w == Wall(t)
        f == w - (w % Hour)
        locs == Localizations(f, t.tz)
    IN IF Cardinality(locs) = 1
       THEN [raised |-> FALSE, at |-> Ts(CHOOSE u \in locs : TRUE, t.tz)]
       ELSE [raised |-> TRUE, at |-> NaT]

\* get_time_range(days_back) when pd.Timestamp.now(tz=TZ) is the instant n
GetTimeRange(d, n) ==
    LET fl == FloorHour(Ts(n, TZ))
    IN IF fl.raised
       THEN [raised |-> TRUE, start |-> NaT, end |-> NaT]
       ELSE [raised |-> FALSE,
             start |-> Ts(fl.at.i8 - d * Day, TZ),
             end |-> fl.at]

(***************************************************************************)
(* Display schema: rows ["Date", "Load (MW)"(, "zone")].                   *)
(***************************************************************************)
DisplayRow(d, v, z) == [Date |-> d, Load_MW |-> v, zone |-> z]

\* one cell of the value column of an upstream response
RawCells == {[kind |-> "num", v |-> 1], [kind |-> "num", v |-> 2],
             [kind |-> "nan", v |-> 0], [kind |-> "str", v |-> 0]}
\* pd.to_numeric(errors="coerce"): what does not parse becomes NaN
ToNumeric(c) == IF c.kind = "num" THEN c.v ELSE NaN

\* What client.query_load does: it raises, or returns a frame that has a
\* value column or none, indexed by naive or Europe/Stockholm timestamps.
RawRows == {[idx |-> i, cell |-> c] : i \in Instants, c \in RawCells}
Responses ==
    {[raises |-> TRUE, has_value |-> FALSE, index_tz |-> "naive", rows |-> <<>>],
     [raises |-> FALSE, has_value |-> FALSE, index_tz |-> TZ, rows |-> <<>>]}
    \cup {[raises |-> FALSE, has_value |-> TRUE, index_tz |-> tz, rows |-> rs] :
            tz \in {"naive", TZ}, rs \in SeqsUpTo(RawRows, MaxFetch)}

\* the orders sort_values("Date") may leave: ascending, ties in any order
DateSorted(df) == \A i, j \in 1..Len(df) : i < j => df[i].Date.i8 <= df[j].Date.i8
RECURSIVE Orderings(_)
Orderings(S) ==
    IF S = {} THEN {<<>>}
    ELSE UNION {{<<x>> \o p : p \in Orderings(S \ {x})} : x \in S}
SortByDate(df) ==
    {[k \in 1..Len(df) |-> df[p[k]]] : p \in
        {q \in Orderings(1..Len(df)) :
            DateSorted([k \in 1..Len(df) |-> df[q[k]]])}}

\* fetch_load_df after query_load returned resp: the frames it may return
FetchLoadDf(resp) ==
    LET date(r) == TzConvert(Ts(r.idx, IF resp.index_tz = "naive" THEN UTC
                                       ELSE resp.index_tz), TZ)
        df == [i \in 1..Len(resp.rows) |->
                 DisplayRow(date(resp.rows[i]), ToNumeric(resp.rows[i].cell), NoZone)]
    IN SortByDate(df)

\* faulty variant: the display wall clock is relabelled as UTC
\* (dt.tz_localize(None).dt.tz_localize("UTC"))
ToStorageDfWallClock(display_df, zone_label) ==
    [i \in 1..Len(display_df) |->
        Row(Ts(Wall(display_df[i].Date), UTC), zone_label, display_df[i].Load_MW)]

\* to_storage_df(display_df, zone_label)
ToStorageDf(display_df, zone_label) ==
    [i \in 1..Len(display_df) |->
        Row(TzConvert(display_df[i].Date, UTC), zone_label, display_df[i].Load_MW)]

\* (zone, Date) order of sort_values(["zone","Date"]): Date by instant
DisplayLess(a, b) ==
    \/ ZoneRank(a.zone) < ZoneRank(b.zone)
    \/ a.zone = b.zone /\ a.Date.i8 < b.Date.i8

InsertDisplay(sorted, r) ==
    LET k == Cardinality({i \in 1..Len(sorted) : ~DisplayLess(r, sorted[i])})
    IN SubSeq(sorted, 1, k) \o <<r>> \o SubSeq(sorted, k + 1, Len(sorted))

RECURSIVE SortDisplay(_)
SortDisplay(df) ==
    IF df = <<>> THEN <<>>
    ELSE InsertDisplay(SortDisplay(SubSeq(df, 1, Len(df) - 1)), df[Len(df)])

\* to_display_df(storage_df, tz)
ToDisplayDf(storage_df, tz) ==
    SortDisplay([i \in 1..Len(storage_df) |->
        DisplayRow(TzConvert(storage_df[i].date, tz), storage_df[i].load_mw,
                   storage_df[i].zone)])

(***************************************************************************)
(* SpecRun: the update job, src/src/main.py main(), run again and again.   *)
(***************************************************************************)
\* a file of the single-zone mode: no "zone" column
LegacyFile ==
    [exists |-> TRUE, readable |-> TRUE, cols |-> {"date", "load_mw"},
     rows |-> <<Row(Ts(FallBackA, UTC), NoZone, 1)>>]
\* a parquet file of another schema: no "date" column
ForeignFile ==
    [exists |-> TRUE, readable |-> TRUE, cols |-> {"zone", "load_mw"},
     rows |-> <<Row(NaT, "SE1", 1)>>]
\* to_parquet has opened the file for writing: it is truncated
Truncated == [exists |-> TRUE, readable |-> FALSE, cols |-> {}, rows |-> <<>>]
\* the row groups are written, the footer is not
Unfinished(df) == [exists |-> TRUE, readable |-> FALSE, cols |-> AllCols, rows |-> df]

RunNows == {FallBackA + 30, FallBackB + Hour + 30}

InitRun ==
    /\ file \in {Absent, LegacyFile, ForeignFile}
    /\ pc = "idle"
    /\ Idle /\ UnusedWindow /\ UnusedConv /\ UnusedAux

\* main, lines 27-37: the window to fetch
Start(n) ==
    /\ pc = "idle"
    /\ LET w == GetTimeRange(IF file.exists THEN BACKFILL_DAYS
                             ELSE INITIAL_HISTORY_DAYS, n)
       IN pc' = IF w.raised THEN "failed" ELSE "fetch"
    /\ zi' = 1
    /\ prior' = file
    /\ UNCHANGED <<file, new_df, ret, storage_chunks, combo,
                   now, days_back, window, conv_in, conv_tz, conv_mid, conv_out>>
    /\ UNCHANGED aux

\* main, lines 42-48: one turn of the loop over TARGET_ZONES
FetchZone(resp) ==
    /\ pc = "fetch"
    /\ IF resp.raises \/ ~resp.has_value
       THEN /\ pc' = "failed"
            /\ UNCHANGED <<zi, storage_chunks>>
       ELSE /\ \E display_df \in FetchLoadDf(resp) :
                 storage_chunks' =
                     storage_chunks \o ToStorageDf(display_df, TARGET_ZONES[zi])
            /\ zi' = zi + 1
            /\ pc' = IF zi = Len(TARGET_ZONES) THEN "update" ELSE "fetch"
    /\ UNCHANGED <<file, new_df, ret, prior, combo,
                   now, days_back, window, conv_in, conv_tz, conv_mid, conv_out>>
    /\ UNCHANGED aux

\* update_history_parquet_multi, lines 129-141
ReadMerge ==
    /\ pc = "update"
    /\ new_df' = storage_chunks
    /\ LET o == UpdateHistory(file, storage_chunks)
       IN /\ pc' = IF o.raised THEN "failed" ELSE "write"
          /\ combo' = o.combo
    /\ UNCHANGED <<file, ret, prior, zi, storage_chunks,
                   now, days_back, window, conv_in, conv_tz, conv_mid, conv_out>>
    /\ UNCHANGED aux

\* combo.to_parquet(parquet_path): open for writing
WriteOpen ==
    /\ pc = "write"
    /\ file' = Truncated
    /\ pc' = "writing"
    /\ UNCHANGED <<new_df, ret, prior, zi, storage_chunks, combo,
                   now, days_back, window, conv_in, conv_tz, conv_mid, conv_out>>
    /\ UNCHANGED aux

\* combo.to_parquet(parquet_path): the row groups
WriteBody ==
    /\ pc = "writing"
    /\ file' = Unfinished(combo)
    /\ pc' = "closing"
    /\ UNCHANGED <<new_df, ret, prior, zi, storage_chunks, combo,
                   now, days_back, window, conv_in, conv_tz, conv_mid, conv_out>>
    /\ UNCHANGED aux

\* combo.to_parquet(parquet_path): footer and close; return combo
WriteClose ==
    /\ pc = "closing"
    /\ file' = Written(combo)
    /\ ret' = combo
    /\ pc' = "returned"
    /\ UNCHANGED <<new_df, prior, zi, storage_chunks, combo,
                   now, days_back, window, conv_in, conv_tz, conv_mid, conv_out>>
    /\ UNCHANGED aux

\* the process is killed while it runs
Crash ==
    /\ pc \in {"fetch", "update", "write", "writing", "closing"}
    /\ pc' = "crashed"
    /\ UNCHANGED <<file, new_df, ret, prior, zi, storage_chunks, combo,
                   now, days_back, window, conv_in, conv_tz, conv_mid, conv_out>>
    /\ UNCHANGED aux

\* the process is gone; the next scheduled run finds only the file
ExitRun ==
    /\ pc \in {"returned", "failed", "crashed"}
    /\ pc' = "idle"
    /\ new_df' = <<>> /\ ret' = <<>> /\ prior' = Absent
    /\ zi' = 0 /\ storage_chunks' = <<>> /\ combo' = <<>>
    /\ UNCHANGED <<file, now, days_back, window, conv_in, conv_tz, conv_mid, conv_out>>
    /\ UNCHANGED aux

NextRun ==
    \/ \E n \in RunNows : Start(n)
    \/ \E resp \in Responses : FetchZone(resp)
    \/ ReadMerge
    \/ WriteOpen
    \/ WriteBody
    \/ WriteClose
    \/ Crash
    \/ ExitRun

SpecRun == InitRun /\ [][NextRun]_vars

(***************************************************************************)
(* Properties of the update job (SpecRun).                                 *)
(***************************************************************************)
NoNaNLoad(df) == \A i \in 1..Len(df) : df[i].load_mw # NaN

\* C6: no row of the persisted table has an absent value, and a run leaves
\* every stored valid value of a key valid.
C6_NoPlaceholderValues ==
    /\ file.readable => NoNaNLoad(file.rows)
    /\ pc = "returned" =>
          \A r \in RowSet(prior.rows) :
              (HasKey(r) /\ r.load_mw # NaN) =>
                  \A i \in Positions(file.rows, Key(r)) : file.rows[i].load_mw # NaN

\* C7: after a crash the file is the complete prior table or the complete
\* reconciled table.
C7_CrashAtomicWrite ==
    pc = "crashed" => (file = prior \/ (file.readable /\ file = Written(combo)))

\* the run has a persisted table it cannot merge: unreadable, or not of the
\* storage schema
PriorMalformed == prior.exists /\ (~prior.readable \/ prior.cols # AllCols)

\* C8: a failed fetch or a malformed persisted table ends the run with the
\* error, nothing is written and the file is what it was before the run.
C8_FatalErrorsLeaveHistory ==
    /\ pc = "failed" => file = prior
    /\ (pc # "idle" /\ PriorMalformed) =>
          /\ file = prior
          /\ pc \notin {"write", "writing", "closing", "returned"}

(***************************************************************************)
(* SpecConv: to_display_df followed by to_storage_df on a storage table.   *)
(***************************************************************************)
SpringForward == DstStart2023          \* 2023-03-26T01:00Z = 03:00 CEST
NewYearEve == 365 * Day - Hour         \* 2023-12-31T23:00Z = 2024-01-01 00:00 CET
ConvInstants == {FallBackA, FallBackB, SpringForward, NewYearEve}
ConvRows == {Row(Ts(i, UTC), z, v) : i \in ConvInstants, z \in Zones, v \in {1, NaN}}
\* Storage Tables: sorted by (zone, date), one row per key
StorageTables ==
    {t \in SeqsUpTo(ConvRows, MaxRows) : SortedByZoneDate(t) /\ NoRepeatedKey(t)}

InitConv ==
    /\ conv_in \in StorageTables
    /\ conv_tz \in TimeZones
    /\ zi \in 1..Len(TARGET_ZONES)
    /\ conv_mid = <<>> /\ conv_out = <<>>
    /\ pc = "conv"
    /\ file = Absent
    /\ new_df = <<>> /\ ret = <<>> /\ prior = Absent
    /\ storage_chunks = <<>> /\ combo = <<>>
    /\ UnusedWindow /\ UnusedAux

ToDisplay ==
    /\ pc = "conv"
    /\ conv_mid' = ToDisplayDf(conv_in, conv_tz)
    /\ pc' = "displayed"
    /\ UNCHANGED <<file, new_df, ret, prior, zi, storage_chunks, combo,
                   now, days_back, window, conv_in, conv_tz, conv_out>>
    /\ UNCHANGED aux

ToStorage ==
    /\ pc = "displayed"
    /\ conv_out' = ToStorageDf(conv_mid, TARGET_ZONES[zi])
    /\ pc' = "stored"
    /\ UNCHANGED <<file, new_df, ret, prior, zi, storage_chunks, combo,
                   now, days_back, window, conv_in, conv_tz, conv_mid>>
    /\ UNCHANGED aux

NextConv == ToDisplay \/ ToStorage

SpecConv == InitConv /\ [][NextConv]_vars

\* C9: to_storage_df(to_display_df(T, Z), zone_label) keeps every row's
\* instant (as a UTC timestamp) and value in place, and returns T itself when
\* zone_label is the zone of T's rows.
C9_RoundTrip ==
    pc = "stored" =>
        /\ Len(conv_out) = Len(conv_in)
        /\ \A i \in 1..Len(conv_in) :
              /\ conv_out[i].date = conv_in[i].date
              /\ conv_out[i].load_mw = conv_in[i].load_mw
              /\ conv_out[i].zone = TARGET_ZONES[zi]
        /\ (\A i \in 1..Len(conv_in) : conv_in[i].zone = TARGET_ZONES[zi])
              => conv_out = conv_in

\* both readings of 02:00 Europe/Stockholm went through the display schema
C9_Witness ==
    /\ pc = "stored"
    /\ conv_tz = TZ
    /\ Len(conv_in) = 2
    /\ \A i \in 1..Len(conv_in) : conv_in[i].zone = TARGET_ZONES[zi]
    /\ conv_mid[1].Date.i8 # conv_mid[2].Date.i8
    /\ Wall(conv_mid[1].Date) = Wall(conv_mid[2].Date)
    /\ conv_out = conv_in

(***************************************************************************)
(* SpecWindow: get_time_range(days_back) at an instant now.                *)
(***************************************************************************)
NowSamples ==
    {FallBackA - Hour + k * 15 : k \in 0..12}
    \cup {SpringForward - Hour + k * 15 : k \in 0..8}
    \cup {10 * Day + 12 * Hour + 7}

InitWindow ==
    /\ now \in NowSamples
    /\ days_back \in 0..MaxDaysBack
    /\ window = NoWindow
    /\ pc = "window"
    /\ file = Absent
    /\ Idle /\ UnusedConv /\ UnusedAux

CallGetTimeRange ==
    /\ pc = "window"
    /\ window' = GetTimeRange(days_back, now)
    /\ pc' = "window_done"
    /\ UNCHANGED <<file, new_df, ret, prior, zi, storage_chunks, combo,
                   now, days_back, conv_in, conv_tz, conv_mid, conv_out>>
    /\ UNCHANGED aux

NextWindow == CallGetTimeRange

SpecWindow == InitWindow /\ [][NextWindow]_vars

\* C10: get_time_range returns (start, end), end the start of now's hour in
\* TZ and start = end - days_back days; start < end when days_back > 0 and
\* start = end when days_back = 0.
C10_Window ==
    pc = "window_done" =>
        /\ ~window.raised
        /\ window.end.tz = TZ
        /\ Wall(window.end) % Hour = 0
        /\ window.end.i8 <= now /\ now < window.end.i8 + Hour
        /\ window.start.i8 = window.end.i8 - days_back * Day
        /\ (days_back > 0 => window.start.i8 < window.end.i8)
        /\ (days_back = 0 => window.start = window.end)

(***************************************************************************)
(* SpecWindowAny: get_time_range with days_back of either sign.            *)
(***************************************************************************)
InitWindowAny ==
    /\ now \in NowSamples
    /\ days_back \in (0 - MaxDaysBack)..MaxDaysBack
    /\ window = NoWindow
    /\ pc = "window"
    /\ file = Absent
    /\ Idle /\ UnusedConv /\ UnusedAux

SpecWindowAny == InitWindowAny /\ [][NextWindow]_vars

\* C11: with a negative days_back get_time_range fails and returns no
\* window; it never returns start > end.
C11_NegativeRejected ==
    pc = "window_done" =>
        /\ days_back < 0 => window.raised
        /\ ~window.raised => window.start.i8 <= window.end.i8

(***************************************************************************)
(* compute_yearly_peak_loads (and the same block of main, lines 56-70).    *)
(***************************************************************************)
\* Series.dt.year: the calendar year of the wall clock
YearOf(t) ==
    LET w == Wall(t)
    IN IF w < 0 THEN 2022
       ELSE IF w < 365 * Day THEN 2023
       ELSE IF w < (365 + 366) * Day THEN 2024
       ELSE 2025

\* strftime("%Y-%m-%d %H:%M"): the wall clock to the minute, without offset
Strftime(t) == Wall(t)

\* df["Date"].dt.year.unique(): the years in order of first appearance
RECURSIVE UniqueYears(_)
UniqueYears(d) ==
    IF d = <<>> THEN <<>>
    ELSE LET init == UniqueYears(SubSeq(d, 1, Len(d) - 1))
             y == YearOf(d[Len(d)].Date)
         IN IF \E k \in 1..Len(init) : init[k] = y THEN init ELSE Append(init, y)

YearRows(d, y) == {i \in 1..Len(d) : YearOf(d[i].Date) = y}

\* faulty variant: ascending=True, the smallest value comes first
PeakCandidatesAscending(d, y) ==
    LET valid == {i \in YearRows(d, y) : d[i].Load_MW # NaN}
    IN IF valid = {} THEN YearRows(d, y)
       ELSE {i \in valid : \A j \in valid : d[i].Load_MW <= d[j].Load_MW}

\* sort_values(by="Load (MW)", ascending=False).iloc[0]: NaN sorts last, the
\* sort on one column is not stable, so any row of the largest value may be
\* first
PeakCandidates(d, y) ==
    LET valid == {i \in YearRows(d, y) : d[i].Load_MW # NaN}
    IN IF valid = {} THEN YearRows(d, y)
       ELSE {i \in valid : \A j \in valid : d[j].Load_MW <= d[i].Load_MW}

PeakRecord(y, r) == [Year |-> y, Date |-> Strftime(r.Date), Load_MW |-> r.Load_MW]

\* the lists max_loads the loop may build
MaxLoads(d) ==
    LET ys == UniqueYears(d)
    IN {[k \in 1..Len(ys) |-> PeakRecord(ys[k], d[c[k]])] :
          c \in {f \in [1..Len(ys) -> 1..Len(d)] :
                   \A k \in 1..Len(ys) : f[k] \in PeakCandidates(d, ys[k])}}

\* sort_values("Year")
InsertByYear(sorted, r) ==
    LET k == Cardinality({i \in 1..Len(sorted) : sorted[i].Year <= r.Year})
    IN SubSeq(sorted, 1, k) \o <<r>> \o SubSeq(sorted, k + 1, Len(sorted))
RECURSIVE SortByYear(_)
SortByYear(ml) ==
    IF Len(ml) = 0 THEN <<>>
    ELSE InsertByYear(SortByYear(SubSeq(ml, 1, Len(ml) - 1)), ml[Len(ml)])

\* compute_yearly_peak_loads(df): the outcomes it may have.  With no rows
\* max_loads is [], pd.DataFrame([]) has no column "Year" and sort_values
\* raises KeyError.
ComputeYearlyPeakLoads(d) ==
    IF Len(d) = 0
    THEN {[raised |-> TRUE, records |-> <<>>]}
    ELSE {[raised |-> FALSE, records |-> SortByYear(ml)] : ml \in MaxLoads(d)}

(***************************************************************************)
(* SpecPeaks: compute_yearly_peak_loads on a display table.                *)
(***************************************************************************)
SpringForward2024 == DstStart2024      \* 2024-03-31T01:00Z
PeakInstants == {FallBackA, NewYearEve, SpringForward2024}
PeakRows == {Row(Ts(i, UTC), z, v) : i \in PeakInstants, z \in Zones, v \in Loads \cup {NaN}}
MaxPeakRows == 3
PeakTables ==
    {t \in SeqsUpTo(PeakRows, MaxPeakRows) : SortedByZoneDate(t) /\ NoRepeatedKey(t)}

InitPeaks ==
    /\ \E t \in PeakTables, tz \in {TZ, UTC} : peak_df = ToDisplayDf(t, tz)
    /\ yearly_peaks = NoPeaks
    /\ pc = "peaks"
    /\ file = Absent
    /\ Idle /\ UnusedWindow /\ UnusedConv
    /\ UnusedTidy /\ UnusedMonths /\ UnusedBackfill

CallComputeYearlyPeakLoads ==
    /\ pc = "peaks"
    /\ yearly_peaks' \in ComputeYearlyPeakLoads(peak_df)
    /\ pc' = "peaks_done"
    /\ UNCHANGED <<file, new_df, ret, prior, zi, storage_chunks, combo,
                   now, days_back, window, conv_in, conv_tz, conv_mid, conv_out>>
    /\ UNCHANGED <<peak_df, df_or_s, tidy, range_start, range_end, months,
                   frames, full>>

NextPeaks == CallComputeYearlyPeakLoads

SpecPeaks == InitPeaks /\ [][NextPeaks]_vars

PeakYears == {YearOf(peak_df[i].Date) : i \in 1..Len(peak_df)}

\* C12: for a non-empty display table the result has one record per calendar
\* year of the display timestamps, ascending by year; the record's value is
\* the largest value of that year over all zones and its timestamp is that
\* of a row with that value.
C12_YearlyPeaks ==
    (pc = "peaks_done" /\ Len(peak_df) > 0) =>
        LET rs == yearly_peaks.records
        IN /\ ~yearly_peaks.raised
           /\ Len(rs) = Cardinality(PeakYears)
           /\ {rs[k].Year : k \in 1..Len(rs)} = PeakYears
           /\ \A k \in 1..(Len(rs) - 1) : rs[k].Year < rs[k + 1].Year
           /\ \A k \in 1..Len(rs) :
                 /\ \E i \in 1..Len(peak_df) :
                       /\ YearOf(peak_df[i].Date) = rs[k].Year
                       /\ peak_df[i].Load_MW = rs[k].Load_MW
                       /\ Wall(peak_df[i].Date) = rs[k].Date
                 /\ \A i \in 1..Len(peak_df) :
                       (YearOf(peak_df[i].Date) = rs[k].Year /\ peak_df[i].Load_MW # NaN)
                           => (rs[k].Load_MW # NaN /\ peak_df[i].Load_MW <= rs[k].Load_MW)

\* two years, the first row of the table in the later year, and a year whose
\* rows of two zones differ in value
C12_Witness ==
    /\ pc = "peaks_done"
    /\ Len(yearly_peaks.records) = 2
    /\ YearOf(peak_df[1].Date) = 2024
    /\ \E i, j \in 1..Len(peak_df) :
          /\ YearOf(peak_df[i].Date) = YearOf(peak_df[j].Date)
          /\ peak_df[i].zone # peak_df[j].zone
          /\ peak_df[i].Load_MW = 1 /\ peak_df[j].Load_MW = 2

\* C13: on a display table with no rows the result is the empty sequence and
\* no error is raised.
C13_EmptyPeaks ==
    (pc = "peaks_done" /\ Len(peak_df) = 0) =>
        (~yearly_peaks.raised /\ yearly_peaks.records = <<>>)

(***************************************************************************)
(* _to_tidy of scripts/historical_data_fetch.py.                           *)
(***************************************************************************)
STORE_TZ == UTC
VALUE_NAME == "load_mw"
NoName == "<None>"                       \* df.index.name is None

\* Cells of a response: floats (a number or NaN) in a numeric column; text
\* of a number, other text or None in an object column.
Num(v) == [kind |-> "num", v |-> v]
NanCell == [kind |-> "nan", v |-> 0]
NumStr(v) == [kind |-> "numstr", v |-> v]
StrCell == [kind |-> "str", v |-> 0]
NoneCell == [kind |-> "none", v |-> 0]

FloatCells == {Num(1), Num(2), NanCell}
FewFloatCells == {Num(1), NanCell}
ObjectCells == {NumStr(1), StrCell, NoneCell}
FewObjectCells == {StrCell, NumStr(2)}

Col(name, numeric, cells) == [name |-> name, numeric |-> numeric, cells |-> cells]

\* The layouts of the responses: a Series, or a frame with its index name,
\* index time zone and columns (name, numeric dtype or not, cells).
Layout(kind, index_name, index_tz, cols) ==
    [kind |-> kind, index_name |-> index_name, index_tz |-> index_tz, cols |-> cols]
Layouts ==
    {Layout("Series", NoName, TZ, <<Col("Actual Load", TRUE, FloatCells)>>),
     Layout("DataFrame", NoName, TZ, <<Col(VALUE_NAME, TRUE, FloatCells),
                                       Col("Actual Load", TRUE, FewFloatCells)>>),
     Layout("DataFrame", NoName, "naive", <<Col("Actual Load", TRUE, FewFloatCells),
                                            Col(VALUE_NAME, FALSE, ObjectCells)>>),
     Layout("DataFrame", NoName, "naive", <<Col("Actual Load", TRUE, FloatCells)>>),
     Layout("DataFrame", "ts", TZ, <<Col("note", FALSE, FewObjectCells),
                                     Col("Actual Load", TRUE, FloatCells)>>),
     Layout("DataFrame", NoName, TZ, <<Col("Actual Load", TRUE, FloatCells),
                                       Col("Forecasted Load", TRUE, FewFloatCells)>>),
     Layout("DataFrame", NoName, UTC, <<Col("note", FALSE, ObjectCells)>>),
     Layout("DataFrame", "ts", TZ, <<Col("ts", FALSE, FewObjectCells),
                                     Col("note", FALSE, ObjectCells)>>),
     Layout("DataFrame", NoName, TZ, <<Col("index", FALSE, ObjectCells)>>),
     Layout("DataFrame", "ts", "naive", <<Col("ts", FALSE, ObjectCells)>>),
     Layout("DataFrame", "ts", TZ, <<>>)}

IndexValues(tz) == {Ts(FallBackA, tz), Ts(FallBackB, tz), NaT}

\* the responses of a layout with n rows
ResponsesOf(l, n) ==
    LET frame(index, columns) ==
            [kind |-> l.kind, index_name |-> l.index_name, index_tz |-> l.index_tz,
             index |-> index, columns |-> columns]
        column(k, cells) == Col(l.cols[k].name, l.cols[k].numeric, cells)
    IN IF Len(l.cols) = 0
       THEN {frame(ix, <<>>) : ix \in [1..n -> IndexValues(l.index_tz)]}
       ELSE IF Len(l.cols) = 1
       THEN {frame(ix, <<column(1, c1)>>) :
               ix \in [1..n -> IndexValues(l.index_tz)],
               c1 \in [1..n -> l.cols[1].cells]}
       ELSE {frame(ix, <<column(1, c[1]), column(2, c[2])>>) :
               ix \in [1..n -> IndexValues(l.index_tz)],
               c \in [1..n -> l.cols[1].cells] \X [1..n -> l.cols[2].cells]}

\* df_or_s.to_frame(name=value_name) for a Series, a copy otherwise
ToFrame(d) ==
    IF d.kind = "Series"
    THEN [d EXCEPT !.kind = "DataFrame",
                   !.columns = <<Col(VALUE_NAME, d.columns[1].numeric, d.columns[1].cells)>>]
    ELSE d

\* tz_localize("UTC") of a naive index, then tz_convert(STORE_TZ)
IndexToStore(d, t) ==
    IF IsNaT(t) THEN NaT
    ELSE TzConvert(Ts(t.i8, IF d.index_tz = "naive" THEN UTC ELSE d.index_tz), STORE_TZ)

ColumnsNamed(df, name) == {k \in 1..Len(df.columns) : df.columns[k].name = name}
NumCols(df) == {k \in 1..Len(df.columns) : df.columns[k].numeric}
\* [c for c in df.columns if c != (df.index.name or "index")]
ValueCols(df) ==
    {k \in 1..Len(df.columns) :
        df.columns[k].name # (IF df.index_name = NoName THEN "index" ELSE df.index_name)}
First(S) == CHOOSE k \in S : \A j \in S : k <= j

\* DataFrame.sum(axis=1): NaN cells are skipped, a row of NaN only sums to 0
RECURSIVE SumCells(_, _, _)
SumCells(df, ks, r) ==
    IF ks = {} THEN 0
    ELSE LET k == First(ks)
             c == df.columns[k].cells[r]
         IN (IF c.kind = "num" THEN c.v ELSE 0) + SumCells(df, ks \ {k}, r)
RowSums(df, ks) == [r \in 1..Len(df.index) |-> Num(SumCells(df, ks, r))]

\* faulty variant: the numeric columns are looked at before the name
ValueColumnNumericFirst(df) ==
    IF Cardinality(NumCols(df)) = 1
    THEN [raised |-> FALSE, cells |-> df.columns[First(NumCols(df))].cells]
    ELSE IF Cardinality(NumCols(df)) > 1
    THEN [raised |-> FALSE, cells |-> RowSums(df, NumCols(df))]
    ELSE IF ColumnsNamed(df, VALUE_NAME) # {}
    THEN [raised |-> FALSE, cells |-> df.columns[First(ColumnsNamed(df, VALUE_NAME))].cells]
    ELSE IF ValueCols(df) = {}
    THEN [raised |-> TRUE, cells |-> <<>>]
    ELSE [raised |-> FALSE, cells |-> df.columns[First(ValueCols(df))].cells]

\* lines 59-69: the column that ends up under value_name, or ValueError
ValueColumn(df) ==
    IF ColumnsNamed(df, VALUE_NAME) # {}
    THEN [raised |-> FALSE, cells |-> df.columns[First(ColumnsNamed(df, VALUE_NAME))].cells]
    ELSE IF Cardinality(NumCols(df)) = 1
    THEN [raised |-> FALSE, cells |-> df.columns[First(NumCols(df))].cells]
    ELSE IF Cardinality(NumCols(df)) > 1
    THEN [raised |-> FALSE, cells |-> RowSums(df, NumCols(df))]
    ELSE IF ValueCols(df) = {}
    THEN [raised |-> TRUE, cells |-> <<>>]
    ELSE [raised |-> FALSE, cells |-> df.columns[First(ValueCols(df))].cells]

\* isna of a cell: NaN and None are missing, text is not
IsNa(c) == c.kind \in {"nan", "none"}
\* pd.to_numeric(errors="coerce") of a cell that is not missing
CoerceCell(c) == IF c.kind \in {"num", "numstr"} THEN c.v ELSE NaN

TidyRow(d, v) == [date |-> d, load_mw |-> v]

\* sort_values("date"): ascending, rows of one timestamp in any order
SortTidy(rows) ==
    {[k \in 1..Len(rows) |-> rows[p[k]]] : p \in
        {q \in Orderings(1..Len(rows)) :
            \A i, j \in 1..Len(rows) : i < j => rows[q[i]].date.i8 <= rows[q[j]].date.i8}}

\* _to_tidy(df_or_s, "load_mw"): the outcomes it may have
ToTidy(d) ==
    LET df == ToFrame(d)
        vc == ValueColumn(df)
    IN IF vc.raised
       THEN {[raised |-> TRUE, rows |-> <<>>]}
       ELSE LET raw == [r \in 1..Len(df.index) |->
                          [date |-> IndexToStore(df, df.index[r]), cell |-> vc.cells[r]]]
                present == TakeRows(raw, {r \in 1..Len(raw) :
                                            ~IsNaT(raw[r].date) /\ ~IsNa(raw[r].cell)}, 1)
                numeric == [r \in 1..Len(present) |->
                              TidyRow(TzConvert(present[r].date, UTC),
                                      CoerceCell(present[r].cell))]
                parsed == TakeRows(numeric, {r \in 1..Len(numeric) :
                                               numeric[r].load_mw # NaN}, 1)
            IN {[raised |-> FALSE, rows |-> s] : s \in SortTidy(parsed)}

(***************************************************************************)
(* SpecTidy: _to_tidy on one response.                                     *)
(***************************************************************************)
InitTidy ==
    /\ \E l \in Layouts, n \in 0..MaxRows : df_or_s \in ResponsesOf(l, n)
    /\ tidy = NoTidy
    /\ pc = "tidy"
    /\ file = Absent
    /\ Idle /\ UnusedWindow /\ UnusedConv
    /\ UnusedPeaks /\ UnusedMonths /\ UnusedBackfill

CallToTidy ==
    /\ pc = "tidy"
    /\ tidy' \in ToTidy(df_or_s)
    /\ pc' = "tidy_done"
    /\ UNCHANGED <<file, new_df, ret, prior, zi, storage_chunks, combo,
                   now, days_back, window, conv_in, conv_tz, conv_mid, conv_out>>
    /\ UNCHANGED <<peak_df, yearly_peaks, df_or_s, range_start, range_end, months,
                   frames, full>>

NextTidy == CallToTidy

SpecTidy == InitTidy /\ [][NextTidy]_vars

\* The response as a frame, and what a cell or a row of it is worth.
InFrame == ToFrame(df_or_s)
InRows == 1..Len(InFrame.index)
DatePresent(r) == ~IsNaT(InFrame.index[r])
CellPresent(c) == c.kind \in {"num", "numstr"}
PresentSum(ks, r) == SumCells(InFrame, {k \in ks : CellPresent(InFrame.columns[k].cells[r])}, r)

\* the rows of tidy are, with their multiplicity, the rows of the response
\* whose timestamp is present and whose cell in cells is a number, each one
\* with its UTC instant and that number
TidyIsColumn(cells) ==
    LET expected(r) == TidyRow(Ts(InFrame.index[r].i8, UTC), cells[r].v)
        kept == {r \in InRows : DatePresent(r) /\ CellPresent(cells[r])}
    IN /\ \A k \in 1..Len(tidy.rows) : \E r \in kept : expected(r) = tidy.rows[k]
       /\ \A r \in kept :
             Cardinality({k \in 1..Len(tidy.rows) : tidy.rows[k] = expected(r)})
                 = Cardinality({q \in kept : expected(q) = expected(r)})

\* C14: _to_tidy takes the values (a) from the column named value_name if
\* there is one, whatever other columns exist; (b) else from the only numeric
\* column; (c) else from the row-wise sum of the numeric columns; (d) else
\* from the first column that is not named like the index, coerced to
\* numbers; with no such column it fails.
C14_ValueColumn ==
    pc = "tidy_done" =>
        LET named == ColumnsNamed(InFrame, VALUE_NAME)
            nums == NumCols(InFrame)
            others == ValueCols(InFrame)
        IN IF named # {}
           THEN ~tidy.raised /\ TidyIsColumn(InFrame.columns[First(named)].cells)
           ELSE IF Cardinality(nums) = 1
           THEN ~tidy.raised /\ TidyIsColumn(InFrame.columns[First(nums)].cells)
           ELSE IF Cardinality(nums) > 1
           THEN /\ ~tidy.raised
                /\ \A k \in 1..Len(tidy.rows) : \E r \in InRows :
                      /\ DatePresent(r)
                      /\ tidy.rows[k] = TidyRow(Ts(InFrame.index[r].i8, UTC), PresentSum(nums, r))
                /\ \A r \in InRows :
                      (DatePresent(r) /\ \A c \in nums : CellPresent(InFrame.columns[c].cells[r]))
                          => \E k \in 1..Len(tidy.rows) :
                                tidy.rows[k] = TidyRow(Ts(InFrame.index[r].i8, UTC),
                                                       PresentSum(nums, r))
           ELSE IF others # {}
           THEN ~tidy.raised /\ TidyIsColumn(InFrame.columns[First(others)].cells)
           ELSE tidy.raised

\* a frame with a text column named value_name next to a numeric column
\* whose cell differs from it in a row that is kept
C14_Witness ==
    /\ pc = "tidy_done"
    /\ df_or_s.kind = "DataFrame"
    /\ ~tidy.raised
    /\ Len(tidy.rows) > 0
    /\ \E a \in ColumnsNamed(InFrame, VALUE_NAME), b \in NumCols(InFrame), r \in InRows :
          /\ a # b
          /\ DatePresent(r)
          /\ InFrame.columns[a].cells[r].kind = "numstr"
          /\ InFrame.columns[b].cells[r].kind = "nan"

\* the value of row r of the response: the number in the chosen column, or,
\* where several numeric columns are summed, the sum of the cells that are
\* present; NaN when there is none
RowValue(r) ==
    LET nums == NumCols(InFrame)
    IN IF ColumnsNamed(InFrame, VALUE_NAME) = {} /\ Cardinality(nums) > 1
       THEN IF \E c \in nums : CellPresent(InFrame.columns[c].cells[r])
            THEN PresentSum(nums, r) ELSE NaN
       ELSE LET c == ValueColumn(InFrame).cells[r]
            IN IF CellPresent(c) THEN c.v ELSE NaN

\* C15: the rows of the result are exactly the rows of the response whose
\* timestamp and value are both present and parseable, rows of one timestamp
\* all kept, in ascending order of timestamp.
C15_RowHandling ==
    (pc = "tidy_done" /\ ~tidy.raised) =>
        LET expected(r) == TidyRow(Ts(InFrame.index[r].i8, UTC), RowValue(r))
            kept == {r \in InRows : DatePresent(r) /\ RowValue(r) # NaN}
        IN /\ \A k \in 1..Len(tidy.rows) : \E r \in kept : expected(r) = tidy.rows[k]
           /\ \A r \in kept :
                 Cardinality({k \in 1..Len(tidy.rows) : tidy.rows[k] = expected(r)})
                     = Cardinality({q \in kept : expected(q) = expected(r)})
           /\ \A i, j \in 1..Len(tidy.rows) :
                 i < j => tidy.rows[i].date.i8 <= tidy.rows[j].date.i8

(***************************************************************************)
(* month_ranges of scripts/historical_data_fetch.py.  --start and --end    *)
(* are dates, read as midnights of QUERY_TZ; a timestamp is the number of  *)
(* its calendar day counted from 2023-01-01.                               *)
(***************************************************************************)
DaysInMonth == <<31, 28, 31, 30, 31, 30, 31, 31, 30, 31, 30, 31>>
\* the first day of month m of 2023 (m = 13: January 2024)
RECURSIVE MonthBegin(_)
MonthBegin(m) == IF m = 1 THEN 0 ELSE MonthBegin(m - 1) + DaysInMonth[m - 1]
MonthBegins == {MonthBegin(m) : m \in 1..13}

\* a + pd.offsets.MonthBegin(1): the first month start after a
NextMonthBegin(a) == CHOOSE b \in MonthBegins : b > a /\ \A c \in MonthBegins : c > a => b <= c

RECURSIVE SeqOfDays(_, _)
SeqOfDays(S, from) ==
    IF \A x \in S : x < from THEN <<>>
    ELSE LET x == CHOOSE y \in S : y >= from /\ \A z \in S : z >= from => y <= z
         IN <<x>> \o SeqOfDays(S, x + 1)

\* pd.date_range(start, end, freq="MS"): the month starts from the first one
\* at or after start up to end, end included
DateRangeMS(start, end) == SeqOfDays({a \in MonthBegins : start <= a /\ a <= end}, 0)

Min(a, b) == IF a <= b THEN a ELSE b

\* month_ranges(start, end): the windows it yields
MonthRanges(start, end) ==
    LET as == DateRangeMS(start, end)
        win == [k \in 1..Len(as) |-> [a |-> as[k], b |-> Min(NextMonthBegin(as[k]), end)]]
    IN TakeRows(win, {k \in 1..Len(win) : win[k].a < win[k].b}, 1)

(***************************************************************************)
(* SpecMonths: month_ranges on a pair of dates.                            *)
(***************************************************************************)
\* Jan 1, Jan 15, Jan 31, Feb 1, Feb 15, Mar 1, Mar 10, Apr 1, Jun 30,
\* Jul 1, Dec 1, Dec 31 of 2023
RangeDays ==
    {MonthBegin(1), MonthBegin(1) + 14, MonthBegin(2) - 1, MonthBegin(2),
     MonthBegin(2) + 14, MonthBegin(3), MonthBegin(3) + 9, MonthBegin(4),
     MonthBegin(7) - 1, MonthBegin(7), MonthBegin(12), MonthBegin(13) - 1}

InitMonths ==
    /\ range_start \in RangeDays
    /\ range_end \in RangeDays
    /\ months = <<>>
    /\ pc = "months"
    /\ file = Absent
    /\ Idle /\ UnusedWindow /\ UnusedConv
    /\ UnusedPeaks /\ UnusedTidy /\ UnusedBackfill

CallMonthRanges ==
    /\ pc = "months"
    /\ months' = MonthRanges(range_start, range_end)
    /\ pc' = "months_done"
    /\ UNCHANGED <<file, new_df, ret, prior, zi, storage_chunks, combo,
                   now, days_back, window, conv_in, conv_tz, conv_mid, conv_out>>
    /\ UNCHANGED <<peak_df, yearly_peaks, df_or_s, tidy, range_start, range_end,
                   frames, full>>

NextMonths == CallMonthRanges

SpecMonths == InitMonths /\ [][NextMonths]_vars

\* C16: for start < end the windows [a, b) are non-empty, each begins where
\* the one before ends, the first begins at start and the last ends at end.
C16_Tiling ==
    (pc = "months_done" /\ range_start < range_end) =>
        /\ Len(months) > 0
        /\ months[1].a = range_start
        /\ months[Len(months)].b = range_end
        /\ \A k \in 1..Len(months) : months[k].a < months[k].b
        /\ \A k \in 1..(Len(months) - 1) : months[k].b = months[k + 1].a

(***************************************************************************)
(* SpecBackfill: main of scripts/historical_data_fetch.py with --out the   *)
(* history file, two zones and the two month windows of January and        *)
(* February 2023.                                                          *)
(***************************************************************************)
\* what fetch_load_chunk may return: rows with a timestamp and a value, in
\* ascending order of timestamp
ChunkRows == {TidyRow(Ts(i, UTC), v) : i \in Instants, v \in Loads}
Chunks ==
    {c \in SeqsUpTo(ChunkRows, MaxFetch) :
        \A i, j \in 1..Len(c) : i < j => c[i].date.i8 <= c[j].date.i8}

\* df["zone"] = label
Labelled(chunk, label) ==
    [i \in 1..Len(chunk) |-> Row(chunk[i].date, label, chunk[i].load_mw)]

\* pd.concat(frames, ignore_index=True)
RECURSIVE Concat(_)
Concat(fs) == IF Len(fs) = 0 THEN <<>> ELSE Concat(SubSeq(fs, 1, Len(fs) - 1)) \o fs[Len(fs)]

\* drop_duplicates(subset=["date","zone"], keep="last"), then
\* sort_values(["zone","date"])
BackfillFull(fs) == SortValues(DropDuplicates(Concat(fs)))

\* faulty variant: the stored rows are put before the fetched ones
BackfillWriteMerged(f, fs) == Written(BackfillFull(<<HistRows(f)>> \o fs))

\* full.to_parquet(out_path, index=False): the file that replaces f
BackfillWrite(f, fs) == Written(BackfillFull(fs))

StoredTables ==
    {<<Row(Ts(FallBackA, UTC), "SE1", 2)>>,
     <<Row(Ts(FallBackA, UTC), "SE1", 1), Row(Ts(FallBackB, UTC), "SE_total", 2)>>}

NumChunks == Len(months) * Len(TARGET_ZONES)

InitBackfill ==
    /\ file \in {Absent} \cup {Written(t) : t \in StoredTables}
    /\ prior = file
    /\ range_start = MonthBegin(1)
    /\ range_end = MonthBegin(3)
    /\ months = MonthRanges(range_start, range_end)
    /\ zi = 0
    /\ frames = <<>>
    /\ full = <<>>
    /\ pc = "backfill"
    /\ new_df = <<>> /\ ret = <<>> /\ storage_chunks = <<>> /\ combo = <<>>
    /\ UnusedWindow /\ UnusedConv /\ UnusedPeaks /\ UnusedTidy

\* one pass of the inner loop: zone (zi mod zones) of window (zi div zones)
FetchChunk(chunk) ==
    /\ pc = "backfill"
    /\ zi < NumChunks
    /\ frames' = IF Len(chunk) = 0 THEN frames
                 ELSE Append(frames, Labelled(chunk, TARGET_ZONES[(zi % Len(TARGET_ZONES)) + 1]))
    /\ zi' = zi + 1
    /\ UNCHANGED <<file, pc, new_df, ret, prior, storage_chunks, combo,
                   now, days_back, window, conv_in, conv_tz, conv_mid, conv_out>>
    /\ UNCHANGED <<peak_df, yearly_peaks, df_or_s, tidy, range_start, range_end,
                   months, full>>

\* query_load or _to_tidy raises: the script ends before it writes
FetchChunkRaises ==
    /\ pc = "backfill"
    /\ zi < NumChunks
    /\ pc' = "backfill_failed"
    /\ UNCHANGED <<file, new_df, ret, prior, zi, storage_chunks, combo,
                   now, days_back, window, conv_in, conv_tz, conv_mid, conv_out>>
    /\ UNCHANGED aux

\* after the loops: SystemExit when nothing was fetched, else the write
FinishBackfill ==
    /\ pc = "backfill"
    /\ zi = NumChunks
    /\ IF Len(frames) = 0
       THEN pc' = "backfill_failed" /\ UNCHANGED <<file, full>>
       ELSE /\ full' = BackfillFull(frames)
            /\ file' = BackfillWrite(file, frames)
            /\ pc' = "backfill_done"
    /\ UNCHANGED <<new_df, ret, prior, zi, storage_chunks, combo,
                   now, days_back, window, conv_in, conv_tz, conv_mid, conv_out>>
    /\ UNCHANGED <<peak_df, yearly_peaks, df_or_s, tidy, range_start, range_end,
                   months, frames>>

NextBackfill ==
    \/ \E chunk \in Chunks : FetchChunk(chunk)
    \/ FetchChunkRaises
    \/ FinishBackfill

SpecBackfill == InitBackfill /\ [][NextBackfill]_vars

\* C17: the file the backfill writes holds one row per fetched (date, zone)
\* key with the value of the row fetched last for it, sorted by (zone, date),
\* and nothing else: it is the same whatever the file held before, and a
\* stored key that was not fetched is gone.
C17_BackfillOverwrites ==
    pc = "backfill_done" =>
        LET cat == Concat(frames)
        IN /\ file.exists /\ file.readable /\ file.cols = AllCols
           /\ file.rows = full
           /\ Keys(full) = Keys(cat)
           /\ NoRepeatedKey(full)
           /\ \A i \in 1..Len(full) :
                 full[i].load_mw = cat[LastPosition(cat, Key(full[i]))].load_mw
           /\ SortedByZoneDate(full)
           /\ \A r \in RowSet(prior.rows) :
                 Key(r) \notin Keys(cat) => Key(r) \notin Keys(file.rows)

\* the file held a key that was not fetched, a key was fetched twice with two
\* values, and rows of both zones were written
C17_Witness ==
    /\ pc = "backfill_done"
    /\ \E r \in RowSet(prior.rows) : Key(r) \notin Keys(Concat(frames))
    /\ \E i, j \in 1..Len(Concat(frames)) :
          /\ i < j
          /\ Key(Concat(frames)[i]) = Key(Concat(frames)[j])
          /\ Concat(frames)[i].load_mw # Concat(frames)[j].load_mw
    /\ \E i, j \in 1..Len(full) : full[i].zone # full[j].zone

====
